---- MODULE Spec2Model ----
(***************************************************************************)
(* Model of scripts/automation/trex_control_plane/stl/examples/            *)
(* stl_ndr_bench_tool.py: one run of ndr_benchmark_test, from the call at  *)
(* module level to the exit of the interpreter.                            *)
(*                                                                         *)
(* The run is a sequential program; pc is its position.  Every call into   *)
(* the external libraries (STLClient, stl_map_ports, the stream and packet *)
(* constructors, ndr_bench) is one step that either returns or raises.     *)
(* log records, in order, every externally visible event of the run:       *)
(* client operations, console prints, the serialization of the result and  *)
(* the exit of the process.                                                *)
(***************************************************************************)
EXTENDS Integers, Sequences, FiniteSets

\* ---------------------------------------------------------------- bounds
MaxPort == 1          \* port ids are 0..MaxPort
MaxPortsLen == 4      \* longest explicit --ports list
MaxPairs == 2         \* most bidirectional pairs stl_map_ports reports
MaxStreams == 2       \* most primary streams STLBench.get_streams returns

PortIds == 0..MaxPort
StreamIds == {"s1", "s2"}

SeqsUpTo(S, n) == UNION {[1..k -> S] : k \in 0..n}

\* ---------------------------------------------------------- Python values
PyNone == "<None>"

\* truth value of an str-or-None argument (`if vm:`)
Truthy(v) == v \notin {"", PyNone}

\* --ports: None (flag absent) or a list of ints (nargs='*', maybe empty)
PortsListValues ==
    {[none |-> TRUE, list |-> <<>>]}
        \cup {[none |-> FALSE, list |-> l] : l \in SeqsUpTo(PortIds, MaxPortsLen)}

\* truth value of ports_list (`if ports_list:`)
PortsTruthy(p) == ~p.none /\ Len(p.list) > 0

VmValues == {"var1", "", PyNone}
OutputValues == {PyNone, "json", "yaml", "JSON"}

\* what stl_map_ports can report under 'bi': a list of (a, b) pairs
BiPairs == {p \in PortIds \X PortIds : p[1] # p[2]}
TableValues == {[bi |-> s] : s \in SeqsUpTo(BiPairs, MaxPairs)}

\* exceptions an external call may raise
ExtErrors == {"STLError", "Exception"}

VARIABLES
    pc,                \* position in the script
    ports_list, latency, vm, output, verbose,   \* arguments of the run
    passed,            \* local `passed`
    table,             \* result of stl_map_ports
    dir_0, ports,      \* locals of the port selection
    streams,           \* local `streams` (mutable list)
    primary,           \* what build_streams_for_bench returned (history)
    add_streams_call,  \* <<>> or <<[streams, ports]>>: arguments of c.add_streams
    config,            \* <<>> or <<[ports, verbose, latency]>>: NdrBenchConfig
    exc,               \* exception currently propagating, or PyNone
    err_step, err_kind,\* first step that raised and what it raised (history)
    log,               \* events of the run, in order
    ret,               \* value returned by ndr_benchmark_test
    exit_status        \* exit status of the process, -1 while running

vars == <<pc, ports_list, latency, vm, output, verbose, passed, table, dir_0,
          ports, streams, primary, add_streams_call, config, exc, err_step,
          err_kind, log, ret, exit_status>>

args == <<ports_list, latency, vm, output, verbose>>

Init ==
    /\ pc = "start"
    /\ ports_list \in PortsListValues
    /\ latency \in BOOLEAN
    /\ vm \in VmValues
    /\ output \in OutputValues
    /\ verbose \in BOOLEAN
    /\ passed = TRUE
    /\ table = [bi |-> <<>>]
    /\ dir_0 = <<>>
    /\ ports = <<>>
    /\ streams = <<>>
    /\ primary = <<>>
    /\ add_streams_call = <<>>
    /\ config = <<>>
    /\ exc = PyNone
    /\ err_step = PyNone
    /\ err_kind = PyNone
    /\ log = <<>>
    /\ ret = PyNone
    /\ exit_status = -1

\* ------------------------------------------------------------ pure helpers

\* range(start, stop, step) for step > 0
RECURSIVE Range(_, _, _)
Range(start, stop, step) ==
    IF start >= stop THEN <<>>
    ELSE <<start>> \o Range(start + step, stop, step)

\* len(ports_list) % 2 != 0, under `if ports_list:`
IllegalPortsList(p) == PortsTruthy(p) /\ Len(p.list) % 2 # 0

\* [ports_list[i] for i in range(0, len(ports_list), 2)]
Dir0_Odd(l) ==
    LET r == Range(1, Len(l), 2) IN [k \in 1..Len(r) |-> l[r[k] + 1]]
Dir0(l) ==
    LET r == Range(0, Len(l), 2) IN [k \in 1..Len(r) |-> l[r[k] + 1]]

\* the latency branch: streams.append(s1) when latency is set
WithLatency_Replace(s, lat) == IF lat THEN <<"rx">> ELSE s
WithLatency(s, lat) == IF lat THEN Append(s, "rx") ELSE s

\* `if output == 'json': return result`, else fall off the end
ReturnValue_AnyOutput(out, result) == IF out # PyNone THEN result ELSE PyNone
ReturnValue(out, result) == IF out = "json" THEN result ELSE PyNone

\* exit status of the interpreter: sys.exit(1) or an uncaught exception give
\* 1, a normal end of the script gives 0
ExitStatus_Zero(e) == IF e \in {PyNone, "SystemExit"} THEN 0 ELSE 1
ExitStatus(e) == IF e = PyNone THEN 0 ELSE 1

\* a step outside the try block raises: the exception leaves the function
RaiseOutside(step, kind) ==
    /\ pc' = "raised"
    /\ exc' = kind
    /\ err_step' = step
    /\ err_kind' = kind

\* a step inside the try block raises: STLError is caught by the except
\* clause, anything else goes through the finally clause and propagates
RaiseInTry(step, kind) ==
    /\ pc' = IF kind = "STLError" THEN "except" ELSE "finally"
    /\ exc' = kind
    /\ err_step' = step
    /\ err_kind' = kind

NoRaise == UNCHANGED <<exc, err_step, err_kind>>

\* ------------------------------------------------------------------ steps

\* lines 35-39: passed = True; the even-length check of an explicit list
CheckPorts_NoReturn ==
    /\ pc = "start"
    /\ passed' = TRUE
    /\ IF IllegalPortsList(ports_list)
       THEN /\ log' = Append(log, "print:illegal ports list")
            /\ pc' = "connect"
       ELSE /\ log' = log
            /\ pc' = "connect"
    /\ UNCHANGED <<args, table, dir_0, ports, streams, primary,
                   add_streams_call, config, exc, err_step, err_kind, ret,
                   exit_status>>
CheckPorts ==
    /\ pc = "start"
    /\ passed' = TRUE
    /\ IF IllegalPortsList(ports_list)
       THEN /\ log' = Append(log, "print:illegal ports list")
            /\ pc' = "returned"
       ELSE /\ log' = log
            /\ pc' = "connect"
    /\ UNCHANGED <<args, table, dir_0, ports, streams, primary,
                   add_streams_call, config, exc, err_step, err_kind, ret,
                   exit_status>>

\* lines 40-42: c = STLClient(server=server); c.connect()
\* the constructor may raise before connect is invoked at all
Connect ==
    /\ pc = "connect"
    /\ \/ /\ log' = log
          /\ \E k \in ExtErrors : RaiseOutside("connect", k)
       \/ /\ log' = Append(log, "connect")
          /\ \/ pc' = "reset" /\ NoRaise
             \/ \E k \in ExtErrors : RaiseOutside("connect", k)
    /\ UNCHANGED <<args, passed, table, dir_0, ports, streams, primary,
                   add_streams_call, config, ret, exit_status>>

\* line 45: c.reset()
Reset ==
    /\ pc = "reset"
    /\ log' = Append(log, "reset")
    /\ \/ pc' = "map_ports" /\ NoRaise
       \/ \E k \in ExtErrors : RaiseOutside("reset", k)
    /\ UNCHANGED <<args, passed, table, dir_0, ports, streams, primary,
                   add_streams_call, config, ret, exit_status>>

\* line 48: table = stl_map_ports(c)
MapPorts ==
    /\ pc = "map_ports"
    /\ log' = Append(log, "map_ports")
    /\ \/ /\ table' \in TableValues
          /\ pc' = "select_ports"
          /\ NoRaise
       \/ /\ table' = table
          /\ \E k \in ExtErrors : RaiseOutside("map_ports", k)
    /\ UNCHANGED <<args, passed, dir_0, ports, streams, primary,
                   add_streams_call, config, ret, exit_status>>

\* lines 50-55: explicit list, or the first bidirectional pair of the map
\* (table['bi'][0] of an empty list raises IndexError)
SelectPorts ==
    /\ pc = "select_ports"
    /\ IF PortsTruthy(ports_list)
       THEN /\ dir_0' = Dir0(ports_list.list)
            /\ ports' = ports_list.list
            /\ pc' = "build_streams"
            /\ NoRaise
       ELSE IF Len(table.bi) = 0
       THEN /\ UNCHANGED <<dir_0, ports>>
            /\ RaiseOutside("select_ports", "IndexError")
       ELSE /\ dir_0' = <<table.bi[1][1]>>
            /\ ports' = <<table.bi[1][1], table.bi[1][2]>>
            /\ pc' = "build_streams"
            /\ NoRaise
    /\ UNCHANGED <<args, passed, table, streams, primary, add_streams_call,
                   config, log, ret, exit_status>>

\* lines 62-63 and 11-24: build_streams_for_bench; stl_bench is bound only
\* under `if vm:`, so a false vm raises UnboundLocalError at line 23
BuildStreams ==
    /\ pc = "build_streams"
    /\ IF Truthy(vm)
       THEN \/ /\ streams' \in SeqsUpTo(StreamIds, MaxStreams)
               /\ primary' = streams'
               /\ pc' = "latency"
               /\ NoRaise
            \/ /\ UNCHANGED <<streams, primary>>
               /\ \E k \in ExtErrors : RaiseOutside("build_streams", k)
       ELSE /\ UNCHANGED <<streams, primary>>
            /\ RaiseOutside("build_streams", "UnboundLocalError")
    /\ UNCHANGED <<args, passed, table, dir_0, ports, add_streams_call,
                   config, log, ret, exit_status>>

\* lines 65-76: the optional latency stream; building it calls the packet
\* and stream constructors (STLPktBuilder, STLFlowLatencyStats,
\* STLTXSingleBurst, STLStream), which may raise before the append
LatencyStream ==
    /\ pc = "latency"
    /\ \/ /\ streams' = WithLatency(streams, latency)
          /\ pc' = "add_streams"
          /\ NoRaise
       \/ /\ latency
          /\ streams' = streams
          /\ \E k \in ExtErrors : RaiseOutside("latency", k)
    /\ UNCHANGED <<args, passed, table, dir_0, ports, primary,
                   add_streams_call, config, log, ret, exit_status>>

\* line 78: c.add_streams(streams, ports=dir_0)
AddStreams ==
    /\ pc = "add_streams"
    /\ log' = Append(log, "add_streams")
    /\ add_streams_call' = <<[streams |-> streams, ports |-> dir_0]>>
    /\ \/ pc' = "config" /\ NoRaise
       \/ \E k \in ExtErrors : RaiseOutside("add_streams", k)
    /\ UNCHANGED <<args, passed, table, dir_0, ports, streams, primary,
                   config, ret, exit_status>>

\* lines 82-88: config = ndr.NdrBenchConfig(ports=ports, ...); b = NdrBench
BuildConfig ==
    /\ pc = "config"
    /\ \/ /\ config' = <<[ports |-> ports, verbose |-> verbose,
                          latency |-> latency]>>
          /\ pc' = "find_ndr"
          /\ NoRaise
       \/ /\ config' = config
          /\ \E k \in ExtErrors : RaiseOutside("config", k)
       \/ /\ config' = <<[ports |-> ports, verbose |-> verbose,
                          latency |-> latency]>>
          /\ \E k \in ExtErrors : RaiseOutside("config", k)
    /\ UNCHANGED <<args, passed, table, dir_0, ports, streams, primary,
                   add_streams_call, log, ret, exit_status>>

\* lines 90-92: try: b.find_ndr(); if b.config.verbose:
FindNdr ==
    /\ pc = "find_ndr"
    /\ log' = Append(log, "find_ndr")
    /\ \/ /\ pc' = IF config[1].verbose THEN "print_final" ELSE "finally"
          /\ NoRaise
       \/ \E k \in ExtErrors : RaiseInTry("find_ndr", k)
    /\ UNCHANGED <<args, passed, table, dir_0, ports, streams, primary,
                   add_streams_call, config, ret, exit_status>>

\* line 93: b.results.print_final(latency)
PrintFinal ==
    /\ pc = "print_final"
    /\ log' = Append(log, "print_final")
    /\ \/ pc' = "finally" /\ NoRaise
       \/ \E k \in ExtErrors : RaiseInTry("print_final", k)
    /\ UNCHANGED <<args, passed, table, dir_0, ports, streams, primary,
                   add_streams_call, config, ret, exit_status>>

\* lines 95-98: except STLError as e: passed = False; print(e); sys.exit(1)
\* sys.exit raises SystemExit, which leaves through the finally clause
ExceptHandler_ExitNow ==
    /\ pc = "except"
    /\ passed' = FALSE
    /\ log' = Append(log, "print:error")
    /\ exc' = "SystemExit"
    /\ pc' = "raised"
    /\ UNCHANGED <<args, table, dir_0, ports, streams, primary,
                   add_streams_call, config, err_step, err_kind, ret,
                   exit_status>>
ExceptHandler_Retry ==
    /\ pc = "except"
    /\ passed' = FALSE
    /\ log' = Append(log, "print:error")
    /\ exc' = PyNone
    /\ pc' = "find_ndr"
    /\ UNCHANGED <<args, table, dir_0, ports, streams, primary,
                   add_streams_call, config, err_step, err_kind, ret,
                   exit_status>>
ExceptHandler ==
    /\ pc = "except"
    /\ passed' = FALSE
    /\ log' = Append(log, "print:error")
    /\ exc' = "SystemExit"
    /\ pc' = "finally"
    /\ UNCHANGED <<args, table, dir_0, ports, streams, primary,
                   add_streams_call, config, err_step, err_kind, ret,
                   exit_status>>

\* an exception raised inside the finally clause or after it: it leaves the
\* function and replaces whatever exception was pending
RaiseLate(step, kind) ==
    /\ pc' = "raised"
    /\ exc' = kind
    /\ err_step' = IF err_step = PyNone THEN step ELSE err_step
    /\ err_kind' = IF err_kind = PyNone THEN kind ELSE err_kind

\* lines 100-101: finally: c.disconnect(); a pending exception propagates,
\* and an exception raised by disconnect itself replaces it
Finally_NoDisconnect ==
    /\ pc = "finally"
    /\ log' = log
    /\ pc' = IF exc = PyNone THEN "report" ELSE "raised"
    /\ NoRaise
    /\ UNCHANGED <<args, passed, table, dir_0, ports, streams, primary,
                   add_streams_call, config, ret, exit_status>>
Finally ==
    /\ pc = "finally"
    /\ log' = Append(log, "disconnect")
    /\ \/ /\ pc' = IF exc = PyNone THEN "report" ELSE "raised"
          /\ NoRaise
       \/ \E k \in ExtErrors : RaiseLate("finally", k)
    /\ UNCHANGED <<args, passed, table, dir_0, ports, streams, primary,
                   add_streams_call, config, ret, exit_status>>

\* lines 103-106: the pass / fail message
Report ==
    /\ pc = "report"
    /\ log' = Append(log, IF passed THEN "print:Test has passed"
                                    ELSE "print:Test has failed")
    /\ pc' = "to_json"
    /\ UNCHANGED <<args, passed, table, dir_0, ports, streams, primary,
                   add_streams_call, config, exc, err_step, err_kind, ret,
                   exit_status>>

\* lines 108-110: result = b.results.to_json(); return it for 'json' only
Serialize ==
    /\ pc = "to_json"
    /\ log' = Append(log, "to_json")
    /\ \/ /\ ret' = ReturnValue(output, "result")
          /\ pc' = "returned"
          /\ NoRaise
       \/ /\ ret' = ret
          /\ \E k \in ExtErrors : RaiseLate("to_json", k)
    /\ UNCHANGED <<args, passed, table, dir_0, ports, streams, primary,
                   add_streams_call, config, exit_status>>

\* lines 220-227: the call is the last statement of the script, so the
\* interpreter exits when it returns or when an exception leaves it
Exit ==
    /\ pc \in {"returned", "raised"}
    /\ exit_status' = ExitStatus(exc)
    /\ log' = Append(log, "exit")
    /\ pc' = "exited"
    /\ UNCHANGED <<args, passed, table, dir_0, ports, streams, primary,
                   add_streams_call, config, exc, err_step, err_kind, ret>>

Next ==
    \/ CheckPorts
    \/ Connect
    \/ Reset
    \/ MapPorts
    \/ SelectPorts
    \/ BuildStreams
    \/ LatencyStream
    \/ AddStreams
    \/ BuildConfig
    \/ FindNdr
    \/ PrintFinal
    \/ ExceptHandler
    \/ Finally
    \/ Report
    \/ Serialize
    \/ Exit

Spec == Init /\ [][Next]_vars

\* ------------------------------------------------------- reading the log

ClientOps == {"connect", "reset", "map_ports", "add_streams", "find_ndr",
              "disconnect"}
IsClientOp(e) == e \in ClientOps
Ops == SelectSeq(log, IsClientOp)

Logged(e) == \E i \in DOMAIN log : log[i] = e
Count(e) == Cardinality({i \in DOMAIN log : log[i] = e})
\* every occurrence of b is preceded by an occurrence of a
Before(a, b) ==
    \A j \in DOMAIN log : log[j] = b => \E i \in 1..(j - 1) : log[i] = a

FullSequence == <<"connect", "reset", "map_ports", "add_streams", "find_ndr",
                  "disconnect">>
IsPrefix(s, t) == Len(s) <= Len(t) /\ \A i \in 1..Len(s) : s[i] = t[i]

\* a client error raised by find_ndr or by the verbose printing after it
SearchClientError ==
    err_step \in {"find_ndr", "print_final"} /\ err_kind = "STLError"

OddExplicitList == ~ports_list.none /\ Len(ports_list.list) % 2 = 1

\* ------------------------------------------------------------- properties

\* C1: with an explicit port list of odd length the run prints 'illegal
\* ports list' and ends without any client operation: the only things that
\* ever happen are that print and the exit, and nothing is returned.
C1_OddPortsAbort ==
    (OddExplicitList /\ pc # "start") =>
        /\ Ops = <<>>
        /\ pc \in {"returned", "exited"}
        /\ log \in {<<"print:illegal ports list">>,
                    <<"print:illegal ports list", "exit">>}
        /\ add_streams_call = <<>> /\ config = <<>>
        /\ ret = PyNone
C1_Witness ==
    /\ pc = "exited"
    /\ ~ports_list.none /\ Len(ports_list.list) = 3
    /\ Logged("print:illegal ports list")
    /\ Ops = <<>>

\* C2: in every run in which connect was invoked and returned, disconnect
\* has been invoked by the time the run ends, whichever later step (reset,
\* port mapping, stream building, add_streams, configuration, search) failed.
C2_DisconnectAlways ==
    (pc = "exited" /\ Logged("connect") /\ err_step # "connect")
        => Logged("disconnect")

\* C3: when find_ndr or the verbose printing raises STLError, the error is
\* printed, then disconnect is invoked, then the process exits with a
\* non-zero status, and no result is returned.
C3_SearchErrorPath ==
    SearchClientError =>
        /\ ret = PyNone
        /\ ~Logged("to_json")
        /\ Before("print:error", "disconnect")
        /\ Before("disconnect", "exit")
        /\ pc = "exited" =>
              /\ exit_status # 0
              /\ Count("print:error") = 1
              /\ Count("disconnect") = 1
              /\ log[Len(log)] = "exit"
C3_Witness ==
    /\ pc = "exited"
    /\ err_step = "find_ndr" /\ err_kind = "STLError"
    /\ Logged("print:error") /\ Logged("disconnect")
    /\ exit_status = 1

\* C4: when the search completes without error, disconnect is invoked
\* exactly once, after find_ndr has returned and before the pass message
\* is printed and the result is serialized.
C4_DisconnectOnce ==
    (Logged("find_ndr") /\ err_step # "find_ndr") =>
        /\ Count("disconnect") <= 1
        /\ Before("find_ndr", "disconnect")
        /\ Before("disconnect", "print:Test has passed")
        /\ Before("disconnect", "to_json")
        /\ pc \in {"report", "to_json", "returned", "raised", "exited"}
              => Count("disconnect") = 1
C4_Witness ==
    /\ pc = "exited"
    /\ err_step = PyNone
    /\ Logged("find_ndr") /\ Logged("print:Test has passed")
    /\ Logged("to_json") /\ Count("disconnect") = 1

\* C5 as stated: the exit status is non-zero when a client error occurs
\* during the search and zero in every other terminating run.
C5_Original ==
    pc = "exited" => (exit_status # 0 <=> SearchClientError)
\* C5 amended: the exit status is non-zero exactly when some step of the
\* run raised (a client error during the search, or any exception that
\* leaves ndr_benchmark_test uncaught), and zero otherwise, the odd-length
\* abort included.
C5_ExitStatus ==
    pc = "exited" =>
        /\ exit_status \in {0, 1}
        /\ exit_status # 0 <=> err_step # PyNone
        /\ SearchClientError => exit_status # 0
        /\ OddExplicitList => exit_status = 0
C5_Witness ==
    /\ pc = "exited"
    /\ SearchClientError
    /\ exit_status = 1

\* C6: every run that invokes the search prints, after disconnecting,
\* exactly one of the pass and fail messages: pass when the search raised
\* no client error, fail when it raised one.
C6_PassFailReported ==
    (pc = "exited" /\ Logged("find_ndr")) =>
        /\ Count("print:Test has passed") + Count("print:Test has failed") = 1
        /\ Logged("print:Test has failed") <=> SearchClientError
        /\ Before("disconnect", "print:Test has passed")
        /\ Before("disconnect", "print:Test has failed")

\* C7 as stated: the run returns the serialized result if and only if
\* output is 'json' and the search (find_ndr and the verbose printing)
\* completed without error.
C7_Original ==
    pc = "exited" =>
        (ret = "result" <=>
            /\ output = "json"
            /\ Logged("find_ndr")
            /\ err_step \notin {"find_ndr", "print_final"})
\* C7 amended: the run returns the serialized result exactly when output is
\* 'json' and no step of the run raised (the search, the disconnect and the
\* serialization included); in every other case (other outputs, the
\* odd-length abort, any failure) it returns nothing.
C7_ReturnsJsonOnly ==
    /\ ret \in {PyNone, "result"}
    /\ pc = "exited" =>
          (ret = "result" <=>
              output = "json" /\ Logged("find_ndr") /\ err_step = PyNone)
    /\ pc # "exited" /\ pc # "returned" => ret = PyNone
C7_Witness ==
    /\ pc = "exited"
    /\ output = "json"
    /\ ret = "result"

\* C8: the list handed to add_streams is the primary streams in order,
\* followed by exactly one latency stream when latency is set and by
\* nothing otherwise.
C8_LatencyAppended ==
    add_streams_call # <<>> =>
        LET sent == add_streams_call[1].streams IN
        /\ latency => sent = primary \o <<"rx">>
        /\ ~latency => sent = primary
        /\ Len(sent) >= Len(primary)
        /\ \A i \in 1..Len(primary) : sent[i] = primary[i]
C8_Witness ==
    /\ add_streams_call # <<>>
    /\ latency
    /\ Len(primary) = 2
    /\ Len(add_streams_call[1].streams) = 3

\* C9: the client operations of a run are a prefix of connect, reset,
\* map ports, add_streams, find_ndr, disconnect; each happens at most
\* once and find_ndr is not retried after it fails.
C9_OpsPrefix ==
    /\ IsPrefix(Ops, FullSequence)
    /\ \A op \in ClientOps : Count(op) <= 1
C9_Witness ==
    /\ pc = "exited"
    /\ err_step = "find_ndr"
    /\ Ops = FullSequence

\* C10: with an explicit even-length list streams go to the ports at even
\* indices, in order, and the configuration gets the whole list; without a
\* list streams go to the first port of the first bidirectional pair and
\* the configuration gets that pair.  The attached ports are among the
\* configured ones and are half as many.
C10_PortSelection ==
    /\ add_streams_call # <<>> =>
          LET att == add_streams_call[1].ports IN
          IF ~ports_list.none /\ ports_list.list # <<>>
          THEN /\ 2 * Len(att) = Len(ports_list.list)
               /\ \A i \in 1..Len(att) : att[i] = ports_list.list[2 * i - 1]
          ELSE att = <<table.bi[1][1]>>
    /\ config # <<>> =>
          LET att == add_streams_call[1].ports
              cfg == config[1].ports IN
          /\ IF ~ports_list.none /\ ports_list.list # <<>>
             THEN cfg = ports_list.list
             ELSE cfg = table.bi[1]
          /\ \A i \in 1..Len(att) : \E j \in 1..Len(cfg) : att[i] = cfg[j]
          /\ 2 * Len(att) = Len(cfg)
C10_Witness ==
    /\ config # <<>>
    /\ ~ports_list.none /\ Len(ports_list.list) = 4
    /\ ports_list.list[1] # ports_list.list[2]
    /\ ports_list.list[3] # ports_list.list[4]
    /\ Len(add_streams_call[1].ports) = 2
C10_WitnessAuto ==
    /\ config # <<>>
    /\ ports_list.none
    /\ Len(table.bi) = 2
    /\ Len(add_streams_call[1].ports) = 1

====
